---- MODULE Spec2Model ----
(***************************************************************************)
(* Model of load_sio.py: parsing of the SIO header (load_header), creation *)
(* of the record map (createSIOMap) and the windowed read (loadFromMap),   *)
(* driven through the public entry points load_header, load_selection and  *)
(* load_allChannels.                                                       *)
(*                                                                         *)
(* numpy arrays are records [shape, at]: shape is the tuple of axis        *)
(* lengths and at maps every 0-based index tuple to the element.  The      *)
(* samples of the file body are labelled <<channel, time>> so that two     *)
(* different samples are never equal by accident.                          *)
(***************************************************************************)
EXTENDS Integers, Sequences, FiniteSets

\* ---------------------------------------------------------------- bounds
MaxChan == 2
MaxRec == 2
MaxSpr == 2
MaxWin == 4

\* ------------------------------------------------------ program constants
EndianMagic == 32677

\* ------------------------------------------------------------- utilities
Min(a, b) == IF a < b THEN a ELSE b
Max(a, b) == IF a > b THEN a ELSE b

\* int(a / b): true division followed by truncation toward zero
IntDiv(a, b) ==
  IF (a >= 0) = (b > 0) THEN (IF a >= 0 THEN a \div b ELSE (-a) \div (-b))
  ELSE (IF a >= 0 THEN -(a \div (-b)) ELSE -((-a) \div b))

\* numpy int32.byteswap(): reverse the four bytes of a signed 32-bit value
byteswap(v) ==
  LET b0 == v % 256
      b1 == (v \div 256) % 256
      b2 == (v \div 65536) % 256
      b3 == (v \div 16777216) % 256
      hi == IF b0 >= 128 THEN b0 - 256 ELSE b0
  IN hi * 16777216 + b1 * 65536 + b2 * 256 + b3

\* ---------------------------------------------------------------- arrays
Indices(shape) ==
  IF Len(shape) = 0 THEN {<<>>}
  ELSE IF Len(shape) = 1 THEN {<<i>> : i \in 0..(shape[1] - 1)}
  ELSE IF Len(shape) = 2
    THEN {<<i, j>> : i \in 0..(shape[1] - 1), j \in 0..(shape[2] - 1)}
  ELSE {<<i, j, k>> : i \in 0..(shape[1] - 1), j \in 0..(shape[2] - 1),
                      k \in 0..(shape[3] - 1)}

RECURSIVE Size(_)
Size(shape) == IF shape = <<>> THEN 1 ELSE Head(shape) * Size(Tail(shape))

\* Python slice bound normalisation on an axis of length n
SliceBound(x, n) == IF x < 0 THEN Max(x + n, 0) ELSE Min(x, n)

\* ---------------------------------------------------------------- header
fieldNames == <<"fid", "numRecords", "recordLength", "numChannels",
                "bytesPerPoint", "isReal", "samplesPerChannel", "endianCheck">>

ByteOrderKnown(check) == check = EndianMagic \/ byteswap(check) = EndianMagic

isBigEndian(check) == check # EndianMagic /\ byteswap(check) = EndianMagic

\* faulty variant of SwapHeader: only the magic word is swapped
SwapHeaderMagicOnly(header) ==
  IF isBigEndian(header[8])
    THEN [i \in 1..8 |-> IF i = 8 THEN byteswap(header[i]) ELSE header[i]]
  ELSE header

\* the header as reported: swapped as a whole when the file is big-endian
SwapHeader(header) ==
  IF isBigEndian(header[8]) THEN [i \in 1..8 |-> byteswap(header[i])]
  ELSE header

\* faulty variant of dataType: 8-byte samples are accepted too
dataTypeWithDouble(bytesPerPoint) ==
  IF bytesPerPoint = 4 THEN "f4"
  ELSE IF bytesPerPoint = 2 THEN "i2"
  ELSE IF bytesPerPoint = 8 THEN "f8"
  ELSE "unknown"

dataType(bytesPerPoint) ==
  IF bytesPerPoint = 4 THEN "f4"
  ELSE IF bytesPerPoint = 2 THEN "i2"
  ELSE "unknown"

recordType(fields, big) ==
  [scalar |-> dataType(fields[5]),
   bigEndian |-> big,
   length |-> IntDiv(fields[3], fields[5])]

defaultChannelNames(n) == [i \in 1..Max(n, 0) |-> i - 1]

\* load_header as a function of the raw header words and channelNames
load_header(header, channelNames) ==
  LET check  == header[8]
      fields == SwapHeader(header)
      names  == IF channelNames.isNone THEN defaultChannelNames(fields[4])
                ELSE channelNames.names
  IN IF ~ByteOrderKnown(check)
       THEN [error |-> "Unknown byte order", fileInfo |-> [fileName |-> "f.sio"]]
     ELSE IF dataType(fields[5]) = "unknown"
       THEN [error |-> "unknown data type", fileInfo |-> [fileName |-> "f.sio"]]
     ELSE [error |-> "",
           fileInfo |->
             [fid |-> fields[1], numRecords |-> fields[2],
              recordLength |-> fields[3], numChannels |-> fields[4],
              bytesPerPoint |-> fields[5], isReal |-> fields[6],
              samplesPerChannel |-> fields[7], endianCheck |-> fields[8],
              fileName |-> "f.sio", readName |-> "name", comment |-> "com",
              channelName |-> names,
              recordType |-> recordType(fields, isBigEndian(check))]]

\* ------------------------------------------------------------ createSIOMap
recPerChan(fileInfo) == IntDiv(fileInfo.numRecords, fileInfo.numChannels)

samPerRec(fileInfo) == IntDiv(fileInfo.recordLength, fileInfo.bytesPerPoint)

\* sample t of channel c as stored in the file body
FileSample(c, t) == <<c, t>>

\* memmap of records, shape (recPerChan, numChannels) of recordType, which
\* numpy exposes as (recPerChan, numChannels, samPerRec): record r of
\* channel c holds samples r*samPerRec .. (r+1)*samPerRec-1 of that channel
createSIOMap(fileInfo) ==
  LET shape == <<recPerChan(fileInfo), fileInfo.numChannels,
                 fileInfo.recordType.length>>
  IN [created |-> TRUE,
      shape |-> shape,
      at |-> [x \in Indices(shape) |->
                FileSample(x[2], x[1] * fileInfo.recordType.length + x[3])]]

NoMap == [created |-> FALSE, shape |-> <<0, 0, 0>>, at |-> <<>>]

\* ------------------------------------------------------------- loadFromMap
\* faulty variant of exceedsBounds: a window ending at the last sample is refused
exceedsBoundsInclusive(sampleStart, numSamples, samplesPerChannel) ==
  (sampleStart + numSamples) >= samplesPerChannel

exceedsBounds(sampleStart, numSamples, samplesPerChannel) ==
  (sampleStart + numSamples) > samplesPerChannel

\* faulty variant of recEndIndex: the extra record is not loaded
recEndIndexNoExtra(sampleStart, numSamples, spr) ==
  IntDiv(sampleStart + numSamples, spr)

recEndIndex(sampleStart, numSamples, spr) ==
  IntDiv(sampleStart + numSamples, spr) + 1

\* the time load indices (lines 30-41)
timeIndices(fileInfo, sampleStart, numSamples) ==
  IF sampleStart < 0
    THEN [error |-> "", recStartI |-> 0, recEndI |-> recPerChan(fileInfo),
          startOffsetI |-> 0, endOffsetI |-> 0]
  ELSE IF exceedsBounds(sampleStart, numSamples, fileInfo.samplesPerChannel)
    THEN [error |-> "Index range exceeds file bounds", recStartI |-> 0,
          recEndI |-> 0, startOffsetI |-> 0, endOffsetI |-> 0]
  ELSE [error |-> "",
        recStartI |-> sampleStart \div samPerRec(fileInfo),
        startOffsetI |-> sampleStart % samPerRec(fileInfo),
        recEndI |-> recEndIndex(sampleStart, numSamples, samPerRec(fileInfo)),
        endOffsetI |-> (sampleStart % samPerRec(fileInfo)) + numSamples]

\* faulty variant of channelIndices: the range check is off by one
channelIndicesOffByOne(fileInfo, channels) ==
  IF \E i \in DOMAIN channels.idx : channels.idx[i] < 0
    THEN [error |-> "",
          channels |-> [scalar |-> FALSE,
                        idx |-> [i \in 1..fileInfo.numChannels |-> i - 1]]]
  ELSE IF \E i \in DOMAIN channels.idx : channels.idx[i] > fileInfo.numChannels
    THEN [error |-> "Requested channels that do not exist",
          channels |-> channels]
  ELSE [error |-> "", channels |-> channels]

\* the channel load indices (lines 43-51); a selector is [scalar, idx]:
\* a bare integer (0-d array) or a list of integers
channelIndices(fileInfo, channels) ==
  IF \E i \in DOMAIN channels.idx : channels.idx[i] < 0
    THEN [error |-> "",
          channels |-> [scalar |-> FALSE,
                        idx |-> [i \in 1..fileInfo.numChannels |-> i - 1]]]
  ELSE IF \E i \in DOMAIN channels.idx : channels.idx[i] >= fileInfo.numChannels
    THEN [error |-> "Requested channels that do not exist",
          channels |-> channels]
  ELSE [error |-> "", channels |-> channels]

\* sioMap[recStartI:recEndI, channels, :] (line 53)
sliceMap(sioMap, recStartI, recEndI, channels) ==
  LET r0   == SliceBound(recStartI, sioMap.shape[1])
      r1   == SliceBound(recEndI, sioMap.shape[1])
      nrec == Max(r1 - r0, 0)
      k    == Len(channels.idx)
      spr  == sioMap.shape[3]
  IN IF \E i \in DOMAIN channels.idx :
          channels.idx[i] >= sioMap.shape[2] \/ channels.idx[i] < -sioMap.shape[2]
       THEN [error |-> "IndexError", shape |-> <<>>, at |-> <<>>]
     ELSE IF channels.scalar
       THEN [error |-> "", shape |-> <<nrec, spr>>,
             at |-> [x \in Indices(<<nrec, spr>>) |->
                       sioMap.at[<<r0 + x[1], channels.idx[1], x[2]>>]]]
     ELSE [error |-> "", shape |-> <<nrec, k, spr>>,
           at |-> [x \in Indices(<<nrec, k, spr>>) |->
                     sioMap.at[<<r0 + x[1], channels.idx[x[2] + 1], x[3]>>]]]

\* lines 56-62: join the records of each channel end to end, result 2-D
concatenate(data) ==
  IF data.shape[1] = 0
    THEN [error |-> "ValueError", shape |-> <<>>, at |-> <<>>]
  ELSE IF Len(data.shape) = 3
    THEN LET shape == <<data.shape[2], data.shape[1] * data.shape[3]>>
         IN [error |-> "", shape |-> shape,
             at |-> [x \in Indices(shape) |->
                       data.at[<<x[2] \div data.shape[3], x[1],
                                 x[2] % data.shape[3]>>]]]
  ELSE LET shape == <<1, data.shape[1] * data.shape[2]>>
       IN [error |-> "", shape |-> shape,
           at |-> [x \in Indices(shape) |->
                     data.at[<<x[2] \div data.shape[2], x[2] % data.shape[2]>>]]]

\* lines 65-68: data[:, startOffsetI:endOffsetI] or data[:, startOffsetI:-1]
trim(data, startOffsetI, endOffsetI) ==
  LET n     == data.shape[2]
      lo    == SliceBound(startOffsetI, n)
      hi    == IF endOffsetI # 0 THEN SliceBound(endOffsetI, n)
               ELSE SliceBound(-1, n)
      shape == <<data.shape[1], Max(hi - lo, 0)>>
  IN [shape |-> shape,
      at |-> [x \in Indices(shape) |-> data.at[<<x[1], lo + x[2]>>]]]

\* faulty variant of transpose: the array is left channel axis first
transposeOmitted(data) == data

\* line 70: data.T
transpose(data) ==
  [shape |-> <<data.shape[2], data.shape[1]>>,
   at |-> [x \in Indices(<<data.shape[2], data.shape[1]>>) |->
             data.at[<<x[2], x[1]>>]]]

RECURSIVE Unsqueezed(_, _)
Unsqueezed(x, shape) ==
  IF shape = <<>> THEN <<>>
  ELSE IF Head(shape) = 1 THEN <<0>> \o Unsqueezed(x, Tail(shape))
  ELSE <<Head(x)>> \o Unsqueezed(Tail(x), Tail(shape))

\* line 73: np.squeeze drops every axis of length one
squeeze(data) ==
  LET shape == SelectSeq(data.shape, LAMBDA d : d # 1)
  IN [shape |-> shape,
      at |-> [x \in Indices(shape) |-> data.at[Unsqueezed(x, data.shape)]]]

\* faulty variant of attachData: the sample count of the header is overwritten
attachDataClobbering(fileInfo, data) ==
  [key \in DOMAIN fileInfo \cup {"data"} |->
     IF key = "data" THEN data
     ELSE IF key = "samplesPerChannel" THEN Size(data.shape)
     ELSE fileInfo[key]]

\* lines 72-73: fileContents is fileInfo itself, with one more key
attachData(fileInfo, data) ==
  [key \in DOMAIN fileInfo \cup {"data"} |->
     IF key = "data" THEN data ELSE fileInfo[key]]

loadFromMap(sioMap, fileInfo, sampleStart, numSamples, channels) ==
  LET t == timeIndices(fileInfo, sampleStart, numSamples)
      c == channelIndices(fileInfo, channels)
      s == sliceMap(sioMap, t.recStartI, t.recEndI, c.channels)
      j == concatenate(s)
      d == squeeze(transpose(trim(j, t.startOffsetI, t.endOffsetI)))
  IN IF t.error # "" THEN [error |-> t.error, fileContents |-> fileInfo]
     ELSE IF c.error # "" THEN [error |-> c.error, fileContents |-> fileInfo]
     ELSE IF s.error # "" THEN [error |-> s.error, fileContents |-> fileInfo]
     ELSE IF j.error # "" THEN [error |-> j.error, fileContents |-> fileInfo]
     ELSE [error |-> "", fileContents |-> attachData(fileInfo, d)]

\* ----------------------------------------------------------------- state
VARIABLES
  header,     \* the eight 32-bit words of the file header, as '<i4' reads them
  pc,         \* position of the call: idle, header, map, load, done, error
  entry,      \* the public function called
  request,    \* its arguments: sampleStart, numSamples, channels, channelNames
  fileInfo,   \* the metadata mapping
  memoryMap,  \* the record map
  error       \* the message of the NameError raised, "" when none

vars == <<header, pc, entry, request, fileInfo, memoryMap, error>>

NoInfo == [fileName |-> "f.sio"]

\* ------------------------------------------------------------------ files
\* a writer stores each header word in its own byte order
Stored(order, v) == IF order = "big" THEN byteswap(v) ELSE v

\* the header of a file of nc channels, rpc records per channel and spr
\* samples per record, of which the last `deficit` samples are padding
HeaderOf(order, nc, rpc, spr, bpp, deficit, magic) ==
  [i \in 1..8 |->
     Stored(order,
       CASE i = 1 -> 1
         [] i = 2 -> nc * rpc
         [] i = 3 -> spr * bpp
         [] i = 4 -> nc
         [] i = 5 -> bpp
         [] i = 6 -> 1
         [] i = 7 -> rpc * spr - deficit
         [] i = 8 -> magic)]

Deficits == {0, 1}

\* files of every geometry 1..MaxChan x 1..MaxRec x 1..MaxSpr
GeometryHeaders ==
  {HeaderOf("little", nc, rpc, spr, 4, deficit, EndianMagic) :
     nc \in 1..MaxChan, rpc \in 1..MaxRec, spr \in 1..MaxSpr,
     deficit \in Deficits}

\* magic words a writer may have left: the right one, its neighbour, its
\* 4-byte and 2-byte swaps, and all ones
MagicWritten == {EndianMagic, EndianMagic + 1, byteswap(EndianMagic), 42367, -1}

\* files of one geometry in every format, damaged ones included
FormatHeaders ==
  {HeaderOf(order, 2, 1, 2, bpp, 0, magic) :
     order \in {"little", "big"}, bpp \in {2, 4, 8},
     magic \in MagicWritten}

Headers == GeometryHeaders \cup FormatHeaders

ChannelNameArgs ==
  {[isNone |-> TRUE, names |-> <<>>], [isNone |-> FALSE, names |-> <<"h1", "h2">>]}

\* a selector entry: "all" (-1), a channel of the file, or none of its channels
ChannelValues == -1..MaxChan

SelectorLengths == {1, 2}

\* the channels argument: a bare integer or a list of integers
Selectors ==
  {[scalar |-> TRUE, idx |-> <<c>>] : c \in ChannelValues}
  \cup {[scalar |-> FALSE, idx |-> q] :
          q \in UNION {[1..n -> ChannelValues] : n \in SelectorLengths}}

NoRequest ==
  [sampleStart |-> -1, numSamples |-> 0,
   channels |-> [scalar |-> TRUE, idx |-> <<-1>>],
   channelNames |-> [isNone |-> TRUE, names |-> <<>>]]

\* ---------------------------------------------------------------- actions
Init ==
  /\ header \in Headers
  /\ pc = "idle"
  /\ entry = "none"
  /\ request = NoRequest
  /\ fileInfo = NoInfo
  /\ memoryMap = NoMap
  /\ error = ""

CallLoadHeader ==
  /\ pc = "idle"
  /\ \E names \in ChannelNameArgs :
       request' = [NoRequest EXCEPT !.channelNames = names]
  /\ entry' = "load_header"
  /\ pc' = "header"
  /\ UNCHANGED <<header, fileInfo, memoryMap, error>>

\* load_allChannels: load_selection(fileName, -1, 0, -1, channelNames)
load_allChannels ==
  /\ pc = "idle"
  /\ \E names \in ChannelNameArgs :
       request' = [sampleStart |-> -1, numSamples |-> 0,
                   channels |-> [scalar |-> TRUE, idx |-> <<-1>>],
                   channelNames |-> names]
  /\ entry' = "load_allChannels"
  /\ pc' = "header"
  /\ UNCHANGED <<header, fileInfo, memoryMap, error>>

load_selection ==
  /\ pc = "idle"
  /\ \E s \in -1..MaxWin, n \in 0..MaxWin, ch \in Selectors,
        names \in ChannelNameArgs :
       request' = [sampleStart |-> s, numSamples |-> n, channels |-> ch,
                   channelNames |-> names]
  /\ entry' = "load_selection"
  /\ pc' = "header"
  /\ UNCHANGED <<header, fileInfo, memoryMap, error>>

\* line 18 (or the whole call, for load_header called on its own)
LoadHeaderStep ==
  /\ pc = "header"
  /\ LET r == load_header(header, request.channelNames)
     IN IF r.error # ""
          THEN /\ pc' = "error"
               /\ error' = r.error
               /\ UNCHANGED fileInfo
        ELSE /\ pc' = IF entry = "load_header" THEN "done" ELSE "map"
             /\ fileInfo' = r.fileInfo
             /\ UNCHANGED error
  /\ UNCHANGED <<header, entry, request, memoryMap>>

\* line 20
CreateMapStep ==
  /\ pc = "map"
  /\ memoryMap' = createSIOMap(fileInfo)
  /\ pc' = "load"
  /\ UNCHANGED <<header, entry, request, fileInfo, error>>

\* line 22
LoadFromMapStep ==
  /\ pc = "load"
  /\ LET r == loadFromMap(memoryMap, fileInfo, request.sampleStart,
                          request.numSamples, request.channels)
     IN /\ fileInfo' = r.fileContents
        /\ error' = r.error
        /\ pc' = IF r.error # "" THEN "error" ELSE "done"
  /\ UNCHANGED <<header, entry, request, memoryMap>>

Next ==
  \/ CallLoadHeader
  \/ load_allChannels
  \/ load_selection
  \/ LoadHeaderStep
  \/ CreateMapStep
  \/ LoadFromMapStep

Spec == Init /\ [][Next]_vars

\* ------------------------------------------------- vocabulary of the claims
\* load_header has returned the metadata mapping
HeaderParsed ==
  pc \in {"map", "load", "done"} \/ (pc = "error" /\ memoryMap.created)

\* loadFromMap has returned or raised
Acted == memoryMap.created /\ pc \in {"done", "error"}

\* loadFromMap has returned
Loaded == memoryMap.created /\ pc = "done"

Consistent ==
  /\ fileInfo.numChannels >= 1
  /\ fileInfo.bytesPerPoint >= 1
  /\ fileInfo.numRecords = fileInfo.numChannels * recPerChan(fileInfo)
  /\ fileInfo.recordLength = samPerRec(fileInfo) * fileInfo.bytesPerPoint
  /\ samPerRec(fileInfo) >= 1
  /\ fileInfo.samplesPerChannel >= 0
  /\ fileInfo.samplesPerChannel <= recPerChan(fileInfo) * samPerRec(fileInfo)

ValidSelector ==
  \A i \in DOMAIN request.channels.idx :
    request.channels.idx[i] >= 0 /\ request.channels.idx[i] < fileInfo.numChannels

NegativeInSelector ==
  \E i \in DOMAIN request.channels.idx : request.channels.idx[i] < 0

OutOfRangeInSelector ==
  \E i \in DOMAIN request.channels.idx :
    request.channels.idx[i] >= fileInfo.numChannels

\* the channels a request selects, in the requested order
SelectedChannels ==
  IF NegativeInSelector THEN [i \in 1..fileInfo.numChannels |-> i - 1]
  ELSE request.channels.idx

\* the window is inside the file
WindowInside ==
  /\ request.sampleStart >= 0
  /\ request.sampleStart + request.numSamples <= fileInfo.samplesPerChannel

\* samples per channel held by an array returned for k channels
SamplesHeld(data, k) == Size(data.shape) \div k

RECURSIVE Squeezed(_, _)
Squeezed(x, shape) ==
  IF shape = <<>> THEN <<>>
  ELSE IF Head(shape) = 1 THEN Squeezed(Tail(x), Tail(shape))
  ELSE <<Head(x)>> \o Squeezed(Tail(x), Tail(shape))

\* sample i of the j-th selected channel (j from 0) of a returned array that
\* holds m samples of each of k channels, sample axis first
Element(data, m, k, i, j) == data.at[Squeezed(<<i, j>>, <<m, k>>)]

\* the four bytes of b are those of a in reverse order
BytesOf(v) ==
  <<v % 256, (v \div 256) % 256, (v \div 65536) % 256, (v \div 16777216) % 256>>

BytesReversed(a, b) ==
  \A n \in 1..4 : BytesOf(a)[n] = BytesOf(b)[5 - n]

\* --------------------------------------------------------------------- C1
\* C1: on a consistent file, a window with sampleStart >= 0, numSamples >= 0
\* and sampleStart + numSamples <= samplesPerChannel and a selector of valid
\* indices only is loaded successfully, and the data holds exactly numSamples
\* samples for each selected channel.
C1_WindowHoldsNumSamples ==
  (Acted /\ Consistent /\ WindowInside /\ ValidSelector)
    => /\ pc = "done"
       /\ SamplesHeld(fileInfo.data, Len(request.channels.idx))
            = request.numSamples

\* --------------------------------------------------------------------- C2
\* C2: on a consistent file, for a valid selector and a window inside the file
\* with numSamples >= 1, sample i of channel c of the windowed load is sample
\* sampleStart + i of channel c of the full load (sampleStart = -1) of the
\* same channels, and that sample exists in the full load.
C2_WindowIsSliceOfFullLoad ==
  (Loaded /\ Consistent /\ WindowInside /\ request.numSamples >= 1
     /\ ValidSelector)
    => LET k    == Len(request.channels.idx)
           full == loadFromMap(memoryMap, fileInfo, -1, 0, request.channels)
           data == fileInfo.data
           m    == SamplesHeld(data, k)
       IN /\ full.error = ""
          /\ m = request.numSamples
          /\ LET whole == full.fileContents.data
                 mf    == SamplesHeld(whole, k)
             IN \A i \in 0..(request.numSamples - 1), j \in 0..(k - 1) :
                  /\ request.sampleStart + i < mf
                  /\ Element(data, m, k, i, j)
                       = Element(whole, mf, k, request.sampleStart + i, j)

\* --------------------------------------------------------------------- C3
\* C3: a load with a negative sampleStart returns all samples of every
\* selected channel: samplesPerChannel samples per channel, on a consistent
\* file with samplesPerChannel = recPerChan * samPerRec.
C3_FullLoadHoldsAllSamples ==
  (Loaded /\ Consistent /\ request.sampleStart < 0
     /\ fileInfo.samplesPerChannel = recPerChan(fileInfo) * samPerRec(fileInfo))
    => SamplesHeld(fileInfo.data, Len(SelectedChannels))
         = fileInfo.samplesPerChannel

\* --------------------------------------------------------------------- C4
\* the first sample a load reads
FirstSample == IF request.sampleStart < 0 THEN 0 ELSE request.sampleStart

WindowAccepted ==
  \/ request.sampleStart < 0
  \/ request.sampleStart + request.numSamples <= fileInfo.samplesPerChannel

\* C5 as stated: with an accepted window, a selector holding any index
\* >= numChannels fails with the channel error, whatever else it holds.
C5_OutOfRangeAlwaysFails ==
  (Acted /\ WindowAccepted /\ OutOfRangeInSelector)
    => pc = "error" /\ error = "Requested channels that do not exist"

\* C5 amended: with an accepted window, a selector holding an index
\* >= numChannels and no negative entry fails with the channel error; a
\* negative entry selects all channels and the load does not fail so.
C5_OutOfRangeFailsUnlessNegative ==
  (Acted /\ WindowAccepted /\ OutOfRangeInSelector)
    => IF NegativeInSelector
         THEN error # "Requested channels that do not exist"
       ELSE pc = "error" /\ error = "Requested channels that do not exist"

C5_Witness ==
  /\ Acted
  /\ request.sampleStart >= 0
  /\ WindowAccepted
  /\ ~NegativeInSelector
  /\ Len(request.channels.idx) = 2
  /\ request.channels.idx[1] = 0
  /\ request.channels.idx[2] = fileInfo.numChannels
  /\ error = "Requested channels that do not exist"

\* --------------------------------------------------------------------- C6
\* C6: for sampleStart >= 0 the load fails with the bounds error exactly when
\* sampleStart + numSamples > samplesPerChannel, for every channel selector.
C6_BoundsErrorExactly ==
  (Acted /\ request.sampleStart >= 0)
    => ((request.sampleStart + request.numSamples > fileInfo.samplesPerChannel)
          <=> (pc = "error" /\ error = "Index range exceeds file bounds"))

C6_Witness ==
  /\ Acted
  /\ request.sampleStart >= 0
  /\ request.sampleStart + request.numSamples > fileInfo.samplesPerChannel
  /\ OutOfRangeInSelector
  /\ ~NegativeInSelector
  /\ error = "Index range exceeds file bounds"

\* --------------------------------------------------------------------- C7
\* load_header has returned or raised
HeaderRead == pc \notin {"idle", "header"}

\* C7: load_header fails with 'Unknown byte order' exactly when neither the
\* magic word nor its byte-swap is 32677; when the magic word is 32677 the
\* eight fields are reported as read; when only its byte-swap is, all eight
\* are reported byte-swapped and the record datatype is big-endian; the
\* reported endianCheck is 32677.
C7_ByteOrder ==
  /\ HeaderRead =>
       ((pc = "error" /\ error = "Unknown byte order")
          <=> (header[8] # 32677 /\ ~BytesReversed(header[8], 32677)))
  /\ HeaderParsed =>
       /\ fileInfo.endianCheck = 32677
       /\ header[8] = 32677 =>
            /\ \A i \in 1..8 : fileInfo[fieldNames[i]] = header[i]
            /\ ~fileInfo.recordType.bigEndian
       /\ header[8] # 32677 =>
            /\ \A i \in 1..8 : BytesReversed(fileInfo[fieldNames[i]], header[i])
            /\ fileInfo.recordType.bigEndian

C7_Witness ==
  /\ pc = "done"
  /\ entry = "load_header"
  /\ header[8] # 32677
  /\ fileInfo.numChannels = 2
  /\ header[4] # 2

\* --------------------------------------------------------------------- C8
\* the bytesPerPoint word in the byte order the magic word gives
CorrectedBytesPerPoint ==
  IF header[8] = 32677 THEN header[5] ELSE byteswap(header[5])

ByteOrderRecognised == header[8] = 32677 \/ BytesReversed(header[8], 32677)

\* C8: on a file of recognised byte order whose bytesPerPoint is neither 4 nor
\* 2, load_selection and load_allChannels fail with 'unknown data type' with
\* no map created and no data attached; with bytesPerPoint 4 or 2 that error
\* is never raised.
C8_UnknownDataTypeFirst ==
  (HeaderRead /\ entry \in {"load_selection", "load_allChannels"}
     /\ ByteOrderRecognised)
    => IF CorrectedBytesPerPoint \in {2, 4}
         THEN error # "unknown data type"
       ELSE /\ pc = "error"
            /\ error = "unknown data type"
            /\ ~memoryMap.created
            /\ "data" \notin DOMAIN fileInfo

C8_Witness ==
  /\ pc = "error"
  /\ entry = "load_selection"
  /\ error = "unknown data type"
  /\ CorrectedBytesPerPoint = 8
  /\ ~memoryMap.created

\* --------------------------------------------------------------------- C9
\* what load_header returns for the same file and channelNames
HeaderAlone == load_header(header, request.channelNames).fileInfo

\* C9: the mapping a successful load returns has the fields and values of
\* load_header's mapping plus the one key 'data'; when loadFromMap fails the
\* mapping is unchanged and has no 'data' key.
C9_MetadataUnchanged ==
  /\ Loaded =>
       /\ DOMAIN fileInfo = DOMAIN HeaderAlone \cup {"data"}
       /\ "data" \notin DOMAIN HeaderAlone
       /\ \A key \in DOMAIN HeaderAlone : fileInfo[key] = HeaderAlone[key]
  /\ (Acted /\ pc = "error") =>
       /\ DOMAIN fileInfo = DOMAIN HeaderAlone
       /\ \A key \in DOMAIN HeaderAlone : fileInfo[key] = HeaderAlone[key]

C9_Witness ==
  /\ Loaded
  /\ entry = "load_selection"
  /\ ~request.channelNames.isNone
  /\ request.numSamples >= 2
  /\ fileInfo.samplesPerChannel # Size(fileInfo.data.shape)

\* -------------------------------------------------------------------- C10
\* C10: for a window inside a consistent file with numSamples >= 1,
\* 0 <= startOffsetI < samPerRec, recStartI = floor(sampleStart / samPerRec),
\* recEndI = floor((sampleStart + numSamples) / samPerRec) + 1, the records
\* recStartI .. min(recEndI, recPerChan) - 1 contain every sample of the
\* window, and the concatenated records hold at least startOffsetI +
\* numSamples samples.
C10_RecordsCoverWindow ==
  (memoryMap.created /\ Consistent /\ WindowInside /\ request.numSamples >= 1)
    => LET t    == timeIndices(fileInfo, request.sampleStart, request.numSamples)
           spr  == samPerRec(fileInfo)
           last == Min(t.recEndI, recPerChan(fileInfo))
           read == concatenate(sliceMap(memoryMap, t.recStartI, t.recEndI,
                                        [scalar |-> TRUE, idx |-> <<0>>]))
       IN /\ t.error = ""
          /\ t.startOffsetI >= 0 /\ t.startOffsetI < spr
          /\ t.recStartI * spr + t.startOffsetI = request.sampleStart
          /\ (t.recEndI - 1) * spr
               <= request.sampleStart + request.numSamples
          /\ request.sampleStart + request.numSamples < t.recEndI * spr
          /\ \A i \in request.sampleStart
                       ..(request.sampleStart + request.numSamples - 1) :
               t.recStartI * spr <= i /\ i < last * spr
          /\ read.error = ""
          /\ read.shape[2] >= t.startOffsetI + request.numSamples
          /\ t.endOffsetI = t.startOffsetI + request.numSamples

C10_Witness ==
  /\ Loaded
  /\ Consistent
  /\ request.sampleStart = 1
  /\ request.numSamples = 3
  /\ samPerRec(fileInfo) = 2
  /\ recPerChan(fileInfo) = 2
  /\ fileInfo.samplesPerChannel = 4

====
